---- MODULE Spec2Model ----
(***************************************************************************)
(* The crawl traversal engine of ecommerce_crawler (fetcher.py, config.py) *)
(* as a state machine.  Every coroutine of the asyncio program is a task   *)
(* record; an action is the code a coroutine runs between two points at    *)
(* which it really suspends (semaphore wait, HTTP round trip, executor,    *)
(* gather).                                                                *)
(*                                                                         *)
(* A URL is the sequence of its path segments below "https://<domain>",    *)
(* a query string being one more token that starts with "?".  The root     *)
(* URL of a domain is the empty sequence.                                  *)
(***************************************************************************)
EXTENDS Integers, Sequences, FiniteSets, TLC

VARIABLES
    domains,             \* the list handed to crawl_domains
    tasks,               \* every coroutine created so far, in creation order
    visited_categories,  \* self.visited_categories : domain -> set of URLs
    product_urls,        \* self.product_urls       : domain -> set of URLs
    visited_urls,        \* self.visited_urls       : domain -> set of URLs
    semaphore,           \* free slots of self.semaphore
    session,             \* self.session: "none", "open" or "closed"
    main,                \* crawl_domains: "gather" or "done"
    web                  \* what the web may still do in this run: links it may
                         \* serve, HTTP attempts it may fail

vars == <<domains, tasks, visited_categories, product_urls, visited_urls,
          semaphore, session, main, web>>

----------------------------------------------------------------------------
(* Configuration (config.py).  The values are small so that every case is  *)
(* reached; max_retries = 1 and max_concurrent_requests = 2 let one call   *)
(* retry and return.                                                       *)

max_pages_per_domain == 2
max_concurrent_requests == 2
batch_size == 1
max_retries == 1
max_depth == 1

(* Bounds of the environment. *)
MaxLinks == 2         \* links on one page
MaxFailures == 2      \* HTTP attempts of one run that do not answer 200
MaxServed == 3        \* links served during a run in which attempts may fail
MaxServedLong == 5    \* links served during a run in which every attempt answers 200
MaxServedMulti == 1   \* links served during a run on several domains
MaxFailuresMulti == 2 \* failing attempts of a run on several domains
MaxServedShop == 7    \* links served during a run on the site shop.test
MaxServedRel == 2     \* links served during a run on the site with a relative link
MaxServedPair == 3    \* links served during a run on two domains without failures

----------------------------------------------------------------------------
(* Small helpers. *)

Min(a, b) == IF a <= b THEN a ELSE b

Max(a, b) == IF a >= b THEN a ELSE b

RECURSIVE Pow2(_)
Pow2(n) == IF n <= 0 THEN 1 ELSE 2 * Pow2(n - 1)

Range(s) == {s[k] : k \in DOMAIN s}

(* list(a_set): any order of the set's elements. *)
Orderings(S) ==
    {f \in [1..Cardinality(S) -> S] : \A a, b \in 1..Cardinality(S) : a # b => f[a] # f[b]}

(* Python's lst[:k]: a negative k counts from the end. *)
PySlice(lst, k) ==
    IF k >= 0 THEN SubSeq(lst, 1, Min(k, Len(lst)))
    ELSE SubSeq(lst, 1, Max(0, Len(lst) + k))

(* [lst[i:i + n] for i in range(0, len(lst), n)] *)
RECURSIVE Chunks(_, _)
Chunks(lst, n) ==
    IF lst = <<>> THEN <<>>
    ELSE <<SubSeq(lst, 1, Min(n, Len(lst)))>> \o Chunks(SubSeq(lst, Min(n, Len(lst)) + 1, Len(lst)), n)

----------------------------------------------------------------------------
(* Domains and URLs. *)

(* A domain string as its tokens: scheme, host, trailing slashes. *)
DomainInputs ==
    {<<"a.test">>, <<"https://", "a.test", "/">>, <<"http://", "b.test">>, <<"shop.test">>}

RECURSIVE RStrip(_)
RStrip(s) == IF s # <<>> /\ s[Len(s)] = "/" THEN RStrip(SubSeq(s, 1, Len(s) - 1)) ELSE s

NotScheme(tok) == tok \notin {"https://", "http://"}

(* domain.replace('https://', '').replace('http://', '').rstrip('/') *)
Normalize(d) == RStrip(SelectSeq(d, NotScheme))

Domains == {Normalize(d) : d \in DomainInputs}

(* The runs: the list crawl_domains is given and what the web may do.  The  *)
(* site is "any" when a page may carry any hrefs, or the name of a fixed   *)
(* site.                                                                   *)
Scenarios ==
    { [domains |-> <<<<"https://", "a.test", "/">>>>, site |-> "any",
       links |-> MaxServedLong, failures |-> 0],
      [domains |-> <<<<"a.test">>>>, site |-> "any",
       links |-> MaxServed, failures |-> MaxFailures],
      [domains |-> <<<<"a.test">>, <<"https://", "a.test", "/">>, <<"http://", "b.test">>>>,
       site |-> "any", links |-> MaxServedMulti, failures |-> MaxFailuresMulti],
      [domains |-> <<<<"a.test">>, <<"http://", "b.test">>>>, site |-> "any",
       links |-> MaxServedPair, failures |-> 0],
      [domains |-> <<<<"shop.test">>>>, site |-> "shop",
       links |-> MaxServedShop, failures |-> 0],
      [domains |-> <<<<"a.test">>>>, site |-> "rel",
       links |-> MaxServedRel, failures |-> 0] }

(* The hrefs the anchors of a page may carry: absolute paths. *)
Hrefs ==
    { [abs |-> TRUE, segs |-> <<"c", "a">>],
      [abs |-> TRUE, segs |-> <<"c", "b">>],
      [abs |-> TRUE, segs |-> <<"c", "d">>],
      [abs |-> TRUE, segs |-> <<"c", "a", "?page=2">>],
      [abs |-> TRUE, segs |-> <<"p", "42">>] }

(* What one fetch may return: the set of hrefs of the page. *)
Pages == {b \in SUBSET Hrefs : Cardinality(b) <= MaxLinks}

BaseUrl == <<>>

IsQuery(tok) == tok \in {"?page=2"}

NotQuery(tok) == ~IsQuery(tok)

PathOf(url) == SelectSeq(url, NotQuery)

(* The site shop.test: the root links to /c/shoes, which links to the       *)
(* product /p/42 and to /c/shoes?page=2; every other page links to pages   *)
(* of the site only.                                                       *)
ShopHrefs ==
    { [abs |-> TRUE, segs |-> <<"c", "shoes">>],
      [abs |-> TRUE, segs |-> <<"p", "42">>],
      [abs |-> TRUE, segs |-> <<"c", "shoes", "?page=2">>] }

ShopPages(url) ==
    CASE url = BaseUrl -> {{[abs |-> TRUE, segs |-> <<"c", "shoes">>]}}
      [] url = <<"c", "shoes">> ->
            {{[abs |-> TRUE, segs |-> <<"p", "42">>],
              [abs |-> TRUE, segs |-> <<"c", "shoes", "?page=2">>]}}
      [] OTHER -> {b \in SUBSET ShopHrefs : Cardinality(b) <= MaxLinks}

(* A site whose category page /c/a carries the relative link "b". *)
RelPages(url) ==
    CASE url = BaseUrl -> {{[abs |-> TRUE, segs |-> <<"c", "a">>]}}
      [] url = <<"c", "a">> -> {{[abs |-> FALSE, segs |-> <<"b">>]}}
      [] OTHER -> {{}}

(* await response.text(), parsed: the hrefs of the page at url *)
Bodies(site, url) ==
    CASE site = "shop" -> ShopPages(url)
      [] site = "rel" -> RelPages(url)
      [] OTHER -> Pages

(* urljoin(base, href): an absolute path replaces the base's path, a        *)
(* relative one replaces its last segment.                                 *)
urljoin(base, href) ==
    IF href.abs THEN href.segs
    ELSE (IF PathOf(base) = <<>> THEN <<>> ELSE SubSeq(PathOf(base), 1, Len(PathOf(base)) - 1)) \o href.segs

----------------------------------------------------------------------------
(* The URL classifier with the default pattern lists of config.py.         *)

Digits == {"42", "2"}

(* "/name/" for a name of names: a whole segment with a segment after it   *)
HasDir(url, names) ==
    \E k \in 1..(Len(PathOf(url)) - 1) : PathOf(url)[k] \in names

(* r'/[^/]+/[^/]+$': the host and one more non-empty last segment *)
EndsInSegment(url) == Len(PathOf(url)) >= 1

(* r'/\d+/buy$' *)
EndsInDigitsBuy(url) ==
    /\ url = PathOf(url)
    /\ Len(url) >= 2
    /\ url[Len(url)] = "buy"
    /\ url[Len(url) - 1] \in Digits

(* A pattern list without r'/p/'. *)
is_product_url_NoP(url) ==
    \/ HasDir(url, {"product", "products", "item", "dp"})
    \/ EndsInDigitsBuy(url)

is_product_url(url) ==
    \/ HasDir(url, {"product", "products", "item", "p", "dp"})
    \/ EndsInDigitsBuy(url)

is_category_url(url) ==
    \/ HasDir(url, {"category", "c", "collection", "collections", "shop"})
    \/ EndsInSegment(url)

(* r'page=(\d+)', r'[\?&]page=(\d+)': a query token; r'/page/(\d+)',       *)
(* r'/p/(\d+)': a segment followed by a number.                            *)
is_pagination_url(url) ==
    \/ \E k \in DOMAIN url : url[k] \in {"?page=2"}
    \/ \E k \in 1..(Len(PathOf(url)) - 1) :
          PathOf(url)[k] \in {"page", "p"} /\ PathOf(url)[k + 1] \in Digits

----------------------------------------------------------------------------
(* Tasks. *)

Outcomes == {"200", "429", "500", "exception"}

NewTask(kind, arg, dom, url, depth, parent, via) ==
    [kind |-> kind, arg |-> arg, dom |-> dom, url |-> url, depth |-> depth,
     parent |-> parent, via |-> via, pc |-> "start",
     fetched |-> FALSE, retry_count |-> 0, attempts |-> <<>>, sleeps |-> <<>>,
     result |-> "none", hrefs |-> {}, links |-> {},
     pagination_links |-> <<>>, batches |-> <<>>, batch |-> 0]

(* The coroutines a gather is given, one per URL of urls. *)
Spawn(dom, urls, depth, parent, via) ==
    [k \in 1..Len(urls) |-> NewTask("category", <<>>, dom, urls[k], depth, parent, via)]

Children(i) == {j \in DOMAIN tasks : tasks[j].parent = i}

(* A gather that returns when the first of its coroutines has returned. *)
AllChildrenDone_First(i) ==
    Children(i) # {} => \E j \in Children(i) : tasks[j].pc = "done"

(* Coroutines that are started and not awaited. *)
AllChildrenDone_NoWait(i) == TRUE

(* await asyncio.gather(...) returns: every coroutine it was given has *)
AllChildrenDone(i) == \A j \in Children(i) : tasks[j].pc = "done"

Unvisited(lst, vis) ==
    LET Fresh(u) == u \notin vis IN SelectSeq(lst, Fresh)

----------------------------------------------------------------------------
Init ==
    /\ \E sc \in Scenarios :
         /\ domains = sc.domains
         /\ web = [site |-> sc.site, links |-> sc.links, failures |-> sc.failures]
    /\ tasks = [k \in 1..Len(domains) |->
                  NewTask("domain", domains[k], <<>>, BaseUrl, 0, 0, "root")]
    /\ visited_categories = [d \in Domains |-> {}]
    /\ product_urls = [d \in Domains |-> {}]
    /\ visited_urls = [d \in Domains |-> {}]
    /\ semaphore = max_concurrent_requests
    /\ session = "none"
    /\ main = "gather"

----------------------------------------------------------------------------
(* fetch_url *)

(* A semaphore that lets every caller in. *)
CanAcquire_Unbounded == TRUE

(* async with self.semaphore: a slot is taken only when one is free *)
CanAcquire == semaphore > 0

(* await asyncio.sleep(2 ** retry_count) *)
Backoff(retry_count) == Pow2(retry_count)

(* A policy that retries after every answer but 200. *)
ShouldRetry_AnyFailure(outcome, retry_count) ==
    /\ outcome # "200"
    /\ retry_count < max_retries

(* The two places that call fetch_url again: a 429 answer and an exception, *)
(* each only while retry_count < max_retries.                              *)
ShouldRetry(outcome, retry_count) ==
    /\ outcome \in {"429", "exception"}
    /\ retry_count < max_retries

(* The slots the frames of a task's fetch_url call hold: one per frame that *)
(* is inside its "async with".                                             *)
Held(t) ==
    CASE t.pc = "request" -> t.retry_count + 1
      [] t.pc = "acquire" -> t.retry_count
      [] OTHER -> 0

(* fetch_url(url) is called: with a slot free the semaphore is entered at  *)
(* once and the coroutine suspends in the request delay and the request;   *)
(* otherwise it suspends waiting for a slot.                               *)
CallFetch(t) ==
    [t EXCEPT !.fetched = TRUE, !.pc = IF CanAcquire THEN "request" ELSE "acquire"]

SemaphoreAfterCall == IF CanAcquire THEN semaphore - 1 ELSE semaphore

SessionAfterCall == IF CanAcquire /\ session = "none" THEN "open" ELSE session

(* A frame of task i that waits for a slot, on the first call or after the *)
(* backoff sleep of a retry, takes one and sends the request.              *)
fetch_url_acquire(i) ==
    /\ tasks[i].pc = "acquire"
    /\ CanAcquire
    /\ semaphore' = semaphore - 1
    /\ session' = IF session = "none" THEN "open" ELSE session
    /\ tasks' = [tasks EXCEPT ![i].pc = "request"]
    /\ UNCHANGED <<domains, visited_categories, product_urls, visited_urls, main, web>>

(* The request of task i ends with outcome o.  A 200 returns the body; a   *)
(* retry sleeps and calls fetch_url again from inside the "async with", so *)
(* the slots held stay held; everything else returns None.  On a return    *)
(* every frame of the call releases its slot.                              *)
fetch_url_response(i, o) ==
    /\ tasks[i].pc = "request"
    /\ o # "200" => web.failures > 0
    /\ web' = IF o = "200" THEN web ELSE [web EXCEPT !.failures = @ - 1]
    /\ LET t == tasks[i] IN
       IF o = "200"
       THEN /\ tasks' = [tasks EXCEPT ![i] =
                           [t EXCEPT !.attempts = Append(@, o), !.result = "body",
                                     !.pc = "parse"]]
            /\ semaphore' = semaphore + t.retry_count + 1
       ELSE IF ShouldRetry(o, t.retry_count)
       THEN /\ tasks' = [tasks EXCEPT ![i] =
                           [t EXCEPT !.attempts = Append(@, o),
                                     !.sleeps = Append(@, Backoff(t.retry_count)),
                                     !.retry_count = @ + 1, !.pc = "acquire"]]
            /\ semaphore' = semaphore
       ELSE /\ tasks' = [tasks EXCEPT ![i] =
                           [t EXCEPT !.attempts = Append(@, o), !.result = "absent",
                                     !.pc = "done"]]
            /\ semaphore' = semaphore + t.retry_count + 1
    /\ UNCHANGED <<domains, visited_categories, product_urls, visited_urls, session, main>>

----------------------------------------------------------------------------
(* crawl_category_pages and process_page *)

(* if start_url in self.visited_categories[domain] or depth > max_depth *)
ShouldSkip(url, depth, vis) == url \in vis \/ depth > max_depth

(* A crawl that does not record the URL it is about to fetch. *)
MarkVisited_Skipped(vis, url) == vis

(* self.visited_categories[domain].add(start_url) *)
MarkVisited(vis, url) == vis \cup {url}

(* A depth test that is off by one. *)
MaySpawnSubcategories_AtMaxDepth(depth, subcategories) ==
    depth <= max_depth /\ subcategories # <<>>

(* if depth < self.config.max_depth and subcategories *)
MaySpawnSubcategories(depth, subcategories) ==
    depth < max_depth /\ subcategories # <<>>

(* max_pages_per_domain - len(self.visited_categories[domain]) *)
RemainingPages(vis) == max_pages_per_domain - Cardinality(vis)

(* subcategories[:remaining_pages], less what is already visited *)
SubcategoryTasks(subcategories, remaining_pages, vis) ==
    Unvisited(PySlice(subcategories, remaining_pages), vis)

(* the depth a subcategory is crawled at *)
SubcategoryDepth(depth) == depth + 1

(* Pagination links crawled as children. *)
PaginationDepth_Child(depth) == depth + 1

(* the depth a pagination link is crawled at *)
PaginationDepth(depth) == depth

(* Lines 156-165: the pagination links not yet visited are crawled, and    *)
(* the node is done when there is none.                                    *)
PaginationStep(ts, i, vis) ==
    LET t == ts[i]
        todo == Unvisited(t.pagination_links, vis)
    IN  IF todo = <<>> THEN [ts EXCEPT ![i].pc = "done"]
        ELSE [ts EXCEPT ![i].pc = "join_pag"]
               \o Spawn(t.dom, todo, PaginationDepth(t.depth), i, "pag")

(* Every link taken for a product. *)
Products_All(links) == links

(* if self.is_product_url(full_url): products.add(full_url) *)
Products(links) == {u \in links : is_product_url(u)}

(* A classification that tests the category patterns on their own. *)
IsSubcategoryCandidate_Independent(url, vis) ==
    is_category_url(url) /\ url \notin vis

(* elif self.is_category_url(full_url) and full_url not in                 *)
(* self.visited_categories[domain]: subcategories.add(full_url)            *)
IsSubcategoryCandidate(url, vis) ==
    ~is_product_url(url) /\ is_category_url(url) /\ url \notin vis

(* if self.is_pagination_url(full_url): pagination_links.add(full_url) *)
PaginationLinks(links) == {u \in links : is_pagination_url(u)}

(* The coroutine starts: the visited check, the mark, the call of          *)
(* process_page and so of fetch_url.                                       *)
crawl_category_pages(i) ==
    /\ tasks[i].kind = "category"
    /\ tasks[i].pc = "start"
    /\ LET t == tasks[i] IN
       IF ShouldSkip(t.url, t.depth, visited_categories[t.dom])
       THEN /\ tasks' = [tasks EXCEPT ![i].pc = "done"]
            /\ UNCHANGED <<visited_categories, semaphore, session>>
       ELSE /\ visited_categories' =
                 [visited_categories EXCEPT ![t.dom] = MarkVisited(@, t.url)]
            /\ tasks' = [tasks EXCEPT ![i] = CallFetch(t)]
            /\ semaphore' = SemaphoreAfterCall
            /\ session' = SessionAfterCall
    /\ UNCHANGED <<domains, product_urls, visited_urls, main, web>>

(* The body is parsed (in the executor), its links are classified, the     *)
(* products are recorded, and the subcategories, or else the pagination    *)
(* links, are gathered.                                                    *)
process_page(i) ==
    /\ tasks[i].kind = "category"
    /\ tasks[i].pc = "parse"
    /\ \E body \in Bodies(web.site, tasks[i].url) :
         /\ Cardinality(body) <= web.links
         /\ web' = [web EXCEPT !.links = @ - Cardinality(body)]
         /\ LET t == tasks[i]
                vis == visited_categories[t.dom]
                links == {urljoin(BaseUrl, h) : h \in body}
                products == Products(links)
                subs == {u \in links : IsSubcategoryCandidate(u, vis)}
                pags == PaginationLinks(links)
            IN  /\ product_urls' = [product_urls EXCEPT ![t.dom] = @ \cup products]
                /\ \E subcategories \in Orderings(subs), pagination_links \in Orderings(pags) :
                     LET todo == IF MaySpawnSubcategories(t.depth, subcategories)
                                 THEN SubcategoryTasks(subcategories, RemainingPages(vis), vis)
                                 ELSE <<>>
                         ts == [tasks EXCEPT ![i].pagination_links = pagination_links,
                                             ![i].hrefs = body, ![i].links = links]
                     IN  tasks' =
                           IF todo # <<>>
                           THEN [ts EXCEPT ![i].pc = "join_sub"]
                                  \o Spawn(t.dom, todo, SubcategoryDepth(t.depth), i, "sub")
                           ELSE PaginationStep(ts, i, vis)
    /\ UNCHANGED <<domains, visited_categories, visited_urls, semaphore, session, main>>

(* await asyncio.gather of the subcategory tasks returns; pagination follows *)
gather_subcategories(i) ==
    /\ tasks[i].pc = "join_sub"
    /\ AllChildrenDone(i)
    /\ tasks' = PaginationStep(tasks, i, visited_categories[tasks[i].dom])
    /\ UNCHANGED <<domains, visited_categories, product_urls, visited_urls, semaphore,
                   session, main, web>>

(* await asyncio.gather of the pagination tasks returns *)
gather_pagination(i) ==
    /\ tasks[i].pc = "join_pag"
    /\ AllChildrenDone(i)
    /\ tasks' = [tasks EXCEPT ![i].pc = "done"]
    /\ UNCHANGED <<domains, visited_categories, product_urls, visited_urls, semaphore,
                   session, main, web>>

----------------------------------------------------------------------------
(* crawl_domain, process_batch, crawl_domains *)

(* The crawls process_batch starts for one batch; each records how many    *)
(* batches of its domain were still to run when its own was, itself        *)
(* included, so that an earlier batch has the larger number.               *)
BatchTasks(dom, i, batches, vis) ==
    LET new == Spawn(dom, Unvisited(Head(batches), vis), 0, i, "batch")
    IN  [k \in DOMAIN new |-> [new[k] EXCEPT !.batch = Len(batches)]]

RECURSIVE AllBatchTasks(_, _, _, _)
AllBatchTasks(dom, i, batches, vis) ==
    IF batches = <<>> THEN <<>>
    ELSE BatchTasks(dom, i, batches, vis) \o AllBatchTasks(dom, i, Tail(batches), vis)

(* Every batch handed to one gather. *)
RunBatches_AllAtOnce(ts, i, batches, vis) ==
    LET new == AllBatchTasks(ts[i].dom, i, batches, vis)
    IN  IF new = <<>> THEN [ts EXCEPT ![i].pc = "done", ![i].batches = <<>>]
        ELSE [ts EXCEPT ![i].pc = "join_batch", ![i].batches = <<>>] \o new

(* for batch in category_batches: await process_batch(domain, batch).  A   *)
(* batch with nothing unvisited gathers nothing and the loop goes on.      *)
RECURSIVE RunBatches(_, _, _, _)
RunBatches(ts, i, batches, vis) ==
    IF batches = <<>> THEN [ts EXCEPT ![i].pc = "done", ![i].batches = <<>>]
    ELSE LET new == BatchTasks(ts[i].dom, i, batches, vis)
         IN  IF new = <<>> THEN RunBatches(ts, i, Tail(batches), vis)
             ELSE [ts EXCEPT ![i].pc = "join_batch", ![i].batches = Tail(batches)] \o new

(* A root frame that records the product links of the root page. *)
RootCollected_Products(links) == {u \in links : is_product_url(u)}

(* What the loop over the root's links adds to self.product_urls[domain]:  *)
(* it fills category_urls only.                                            *)
RootCollected(links) == {}

(* The coroutine starts: the domain is normalised and its root fetched. *)
crawl_domain(i) ==
    /\ tasks[i].kind = "domain"
    /\ tasks[i].pc = "start"
    /\ LET dom == Normalize(tasks[i].arg)
           skip == BaseUrl \in visited_urls[dom]
       IN  /\ tasks' = [tasks EXCEPT ![i] =
                          IF skip THEN [@ EXCEPT !.dom = dom, !.pc = "done"]
                          ELSE CallFetch([@ EXCEPT !.dom = dom])]
           /\ semaphore' = IF skip THEN semaphore ELSE SemaphoreAfterCall
           /\ session' = IF skip THEN session ELSE SessionAfterCall
    /\ UNCHANGED <<domains, visited_categories, product_urls, visited_urls, main, web>>

(* The root's body is parsed, its category links are batched and the first *)
(* batch is gathered.                                                      *)
crawl_domain_batches(i) ==
    /\ tasks[i].kind = "domain"
    /\ tasks[i].pc = "parse"
    /\ \E body \in Bodies(web.site, tasks[i].url) :
         /\ Cardinality(body) <= web.links
         /\ web' = [web EXCEPT !.links = @ - Cardinality(body)]
         /\ LET t == tasks[i]
                links == {urljoin(t.url, h) : h \in body}
                category_urls == {u \in links : is_category_url(u)}
                ts == [tasks EXCEPT ![i].hrefs = body, ![i].links = links]
            IN  /\ product_urls' = [product_urls EXCEPT ![t.dom] = @ \cup RootCollected(links)]
                /\ \E lst \in Orderings(category_urls) :
                      tasks' = RunBatches(ts, i, Chunks(lst, batch_size),
                                          visited_categories[t.dom])
    /\ UNCHANGED <<domains, visited_categories, visited_urls, semaphore, session, main>>

(* await process_batch(domain, batch) returns; the next batch follows *)
process_batch(i) ==
    /\ tasks[i].pc = "join_batch"
    /\ AllChildrenDone(i)
    /\ tasks' = RunBatches(tasks, i, tasks[i].batches, visited_categories[tasks[i].dom])
    /\ UNCHANGED <<domains, visited_categories, product_urls, visited_urls, semaphore,
                   session, main, web>>

(* await asyncio.gather of the domain crawls returns; the session is closed *)
crawl_domains ==
    /\ main = "gather"
    /\ \A j \in DOMAIN tasks : tasks[j].pc = "done"
    /\ main' = "done"
    /\ session' = IF session = "open" THEN "closed" ELSE session
    /\ UNCHANGED <<domains, tasks, visited_categories, product_urls, visited_urls,
                   semaphore, web>>

----------------------------------------------------------------------------
Next ==
    \/ \E i \in DOMAIN tasks : crawl_domain(i)
    \/ \E i \in DOMAIN tasks : crawl_domain_batches(i)
    \/ \E i \in DOMAIN tasks : process_batch(i)
    \/ \E i \in DOMAIN tasks : crawl_category_pages(i)
    \/ \E i \in DOMAIN tasks : process_page(i)
    \/ \E i \in DOMAIN tasks : gather_subcategories(i)
    \/ \E i \in DOMAIN tasks : gather_pagination(i)
    \/ \E i \in DOMAIN tasks : fetch_url_acquire(i)
    \/ \E i \in DOMAIN tasks, o \in Outcomes : fetch_url_response(i, o)
    \/ crawl_domains

Spec == Init /\ [][Next]_vars

Done == main = "done"

----------------------------------------------------------------------------
(* Properties. *)

InFlight == {i \in DOMAIN tasks : tasks[i].pc = "request"}

Returned(t) == t.result # "none"

Last(seq) == seq[Len(seq)]

(* C1: for every domain and every URL, fetch_url is called at most once    *)
(* for that URL of that domain in a run, retries being part of the call    *)
(* and the root fetch of crawl_domain counting like any other.             *)
C1_FetchedAtMostOnce ==
    \A i, j \in DOMAIN tasks :
        (/\ tasks[i].fetched /\ tasks[j].fetched
         /\ tasks[i].dom = tasks[j].dom /\ tasks[i].url = tasks[j].url) => i = j

(* C2: the crawl always completes: in every state either crawl_domains has *)
(* returned or some coroutine can take a step.                             *)
C2_CrawlTerminates == Done \/ ENABLED Next

(* C3: the number of requests in flight, over all domains, is at most      *)
(* max_concurrent_requests.                                                *)
C3_InFlightBounded == Cardinality(InFlight) <= max_concurrent_requests

C3_Witness ==
    /\ Cardinality(InFlight) = max_concurrent_requests
    /\ \E i \in DOMAIN tasks : tasks[i].pc = "acquire" /\ tasks[i].retry_count = 0
    /\ Cardinality({tasks[i].dom : i \in InFlight}) > 1

(* C4: there is no state in which every slot is held by a fetch_url call   *)
(* that itself waits for a slot (for its own retry).                       *)
C4_NoSlotHeldByWaiter ==
    ~ (/\ semaphore = 0
       /\ \A i \in DOMAIN tasks : Held(tasks[i]) > 0 => tasks[i].pc = "acquire")

All429(t) == t.attempts # <<>> /\ \A k \in DOMAIN t.attempts : t.attempts[k] = "429"

(* C6: a call whose every attempt answers 429 makes max_retries + 1        *)
(* attempts, sleeps 2^i seconds before retry i + 1, and returns absent:    *)
(* what it has done so far is a prefix of that, a return ends it, and      *)
(* while it has not returned the program is not stuck.                     *)
C6_Retry429 ==
    \A i \in DOMAIN tasks :
      LET t == tasks[i] IN
      All429(t) =>
        /\ Len(t.attempts) <= max_retries + 1
        /\ t.sleeps = [k \in 1..Min(Len(t.attempts), max_retries) |-> 2 ^ (k - 1)]
        /\ Returned(t) => (t.result = "absent" /\ Len(t.attempts) = max_retries + 1)
        /\ ~Returned(t) => ENABLED Next

(* C6 without its last conjunct: what holds of every such call that does   *)
(* return.                                                                 *)
C6_Retry429WhenReturned ==
    \A i \in DOMAIN tasks :
      LET t == tasks[i] IN
      All429(t) =>
        /\ Len(t.attempts) <= max_retries + 1
        /\ t.sleeps = [k \in 1..Min(Len(t.attempts), max_retries) |-> 2 ^ (k - 1)]
        /\ Returned(t) => (t.result = "absent" /\ Len(t.attempts) = max_retries + 1)

(* C7: at every subcategory-scheduling step the number of subcategories    *)
(* scheduled is at most max_pages_per_domain - |visited|, and none is      *)
(* scheduled when that is zero or less.                                    *)
C7_BudgetTruncation ==
    [][\A i \in DOMAIN tasks :
          (/\ tasks[i].kind = "category"
           /\ tasks[i].pc = "parse"
           /\ tasks'[i].pc = "join_sub")
          => Len(tasks') - Len(tasks)
               <= Max(0, max_pages_per_domain
                           - Cardinality(visited_categories[tasks[i].dom]))]_vars

ViaPagination(d) ==
    \E i \in DOMAIN tasks :
        tasks[i].dom = d /\ tasks[i].via = "pag" /\ tasks[i].fetched

(* C8: in a crawl in which no URL of a domain is visited through           *)
(* pagination, the domain's visited set never exceeds max_pages_per_domain *)
C8_PageBudget ==
    \A d \in Domains :
        ~ViaPagination(d) => Cardinality(visited_categories[d]) <= max_pages_per_domain

(* C9: crawl_category_pages marks and fetches no URL at a depth above      *)
(* max_depth, and a subcategory child is crawled at its parent's depth + 1 *)
(* from a parent whose depth is below max_depth.                           *)
C9_DepthBound ==
    \A i \in DOMAIN tasks :
      LET t == tasks[i] IN
        /\ (t.kind = "category" /\ t.fetched) => t.depth <= max_depth
        /\ t.via = "sub" =>
              /\ tasks[t.parent].depth < max_depth
              /\ t.depth = tasks[t.parent].depth + 1

C9_Witness ==
    \E i \in DOMAIN tasks :
        /\ tasks[i].via = "sub"
        /\ tasks[i].depth = max_depth
        /\ tasks[i].result = "body"
        /\ tasks[i].pc = "done"

(* C10: every pagination link found on a fetched node is visited by the    *)
(* time the node's expansion is complete, whatever the node's depth and    *)
(* the size of the visited set, and a pagination link is crawled at the    *)
(* depth of the node it was found on.                                      *)
C10_PaginationExemption ==
    \A i \in DOMAIN tasks :
      LET t == tasks[i] IN
        /\ (t.kind = "category" /\ t.result = "body" /\ t.pc = "done") =>
              Range(t.pagination_links) \subseteq visited_categories[t.dom]
        /\ t.via = "pag" => t.depth = tasks[t.parent].depth

C10_Witness ==
    \E i \in DOMAIN tasks :
        /\ tasks[i].via = "pag"
        /\ tasks[i].fetched
        /\ tasks[i].depth = max_depth
        /\ tasks[tasks[i].parent].pc = "done"
        /\ Cardinality(visited_categories[tasks[i].dom]) > max_pages_per_domain

----------------------------------------------------------------------------
(* The step in which node i's page has been parsed and classified. *)
Parsed(i) ==
    /\ i \in DOMAIN tasks
    /\ tasks[i].kind = "category"
    /\ tasks[i].pc = "parse"
    /\ tasks'[i].pc # "parse"

(* The crawls created by the step for node i and the way via. *)
NewUrls(i, via) ==
    {tasks'[j].url : j \in {k \in DOMAIN tasks' \ DOMAIN tasks :
                                tasks'[k].parent = i /\ tasks'[k].via = via}}

ShopTest == Normalize(<<"shop.test">>)

(* VisitedSet(domain): the URLs the crawler has recorded as visited *)
VisitedSet(d) == visited_categories[d] \cup visited_urls[d]

(* C12: on the site shop.test with every fetch succeeding, the product set *)
(* of shop.test is exactly {/p/42} when crawl_domains has returned.        *)
C12_ShopProducts ==
    (web.site = "shop" /\ Done) => product_urls[ShopTest] = {<<"p", "42">>}

C12_Witness ==
    /\ web.site = "shop"
    /\ Done
    /\ product_urls[ShopTest] = {<<"p", "42">>}
    /\ \E i \in DOMAIN tasks :
          tasks[i].url = <<"c", "shoes", "?page=2">> /\ tasks[i].result = "body"

(* C13: on the site shop.test with every fetch succeeding, the visited set *)
(* of shop.test is exactly the root, /c/shoes and /c/shoes?page=2 when     *)
(* crawl_domains has returned.                                             *)
C13_ShopVisited ==
    (web.site = "shop" /\ Done) =>
        VisitedSet(ShopTest) = {BaseUrl, <<"c", "shoes">>, <<"c", "shoes", "?page=2">>}

(* C14: a node has completed only when every subcategory and pagination    *)
(* child it spawned has completed, a domain crawl only when every crawl of *)
(* its batches has, and crawl_domains only when every domain crawl has.    *)
C14_StructuredJoin ==
    /\ \A i \in DOMAIN tasks :
          tasks[i].pc = "done" => \A j \in Children(i) : tasks[j].pc = "done"
    /\ Done => \A i \in DOMAIN tasks : tasks[i].pc = "done"

C14_Witness ==
    /\ Done
    /\ \E i \in DOMAIN tasks :
          /\ tasks[i].kind = "category"
          /\ \E j \in Children(i) : tasks[j].via = "sub" /\ tasks[j].result = "body"
          /\ \E j \in Children(i) : tasks[j].via = "pag" /\ tasks[j].result = "body"
    /\ \E i \in DOMAIN tasks :
          tasks[i].kind = "domain" /\ \E j \in Children(i) : tasks[j].fetched

(* C15, as claimed: a node's pagination expansion does not wait for its    *)
(* subcategory expansion: while the node's subcategory children are in     *)
(* progress, the crawls of its pagination links not yet visited have been  *)
(* started too.                                                            *)
C15_SiblingConcurrency ==
    \A i \in DOMAIN tasks :
        (/\ tasks[i].pc = "join_sub"
         /\ \E u \in Range(tasks[i].pagination_links) :
                u \notin visited_categories[tasks[i].dom])
        => \E j \in Children(i) : tasks[j].via = "pag"

(* C15, amended: the two expansions of a node run one after the other: a   *)
(* pagination child of a node exists only when every subcategory child of  *)
(* that node has completed, so no subcategory child and pagination child   *)
(* of the same node are ever in progress together.                         *)
C15_PaginationAfterSubcategories ==
    \A i \in DOMAIN tasks : \A j, k \in Children(i) :
        (tasks[j].via = "sub" /\ tasks[k].via = "pag") => tasks[j].pc = "done"

C15_Witness ==
    \E i \in DOMAIN tasks : \E j, k \in Children(i) :
        /\ tasks[j].via = "sub" /\ tasks[j].result = "body" /\ tasks[j].pc = "done"
        /\ tasks[k].via = "pag" /\ tasks[k].pc = "request"

(* Task k is task i or one of the crawls of its fan-out. *)
RECURSIVE IsUnder(_, _)
IsUnder(k, i) ==
    \/ k = i
    \/ tasks[k].parent # 0 /\ IsUnder(tasks[k].parent, i)

AbsentNodes == {i \in DOMAIN tasks : tasks[i].kind = "category" /\ tasks[i].result = "absent"}

(* C17: a node whose fetch yields absent keeps its URL in the visited set, *)
(* the URL is fetched by no other crawl of the run, the node has no        *)
(* children and returns normally; the step that yields absent changes no   *)
(* product set and no other coroutine.                                     *)
C17_SilentLocalFailure ==
    /\ [](\A i \in AbsentNodes :
            /\ tasks[i].url \in visited_categories[tasks[i].dom]
            /\ tasks[i].pc = "done"
            /\ Children(i) = {}
            /\ \A j \in DOMAIN tasks :
                  (/\ j # i /\ tasks[j].kind = "category"
                   /\ tasks[j].dom = tasks[i].dom /\ tasks[j].url = tasks[i].url)
                  => ~tasks[j].fetched)
    /\ [][\A i \in DOMAIN tasks :
            (tasks[i].kind = "category" /\ tasks[i].result = "none"
               /\ tasks'[i].result = "absent")
            => /\ product_urls' = product_urls
               /\ visited_categories' = visited_categories
               /\ Len(tasks') = Len(tasks)
               /\ \A j \in DOMAIN tasks : j # i => tasks'[j] = tasks[j]
               /\ main' = main]_vars

C17_Witness ==
    /\ Done
    /\ \E i \in AbsentNodes : \E j \in DOMAIN tasks :
          /\ j > i
          /\ tasks[j].parent = tasks[i].parent
          /\ tasks[j].result = "body"
          /\ tasks[i].url \in visited_categories[tasks[i].dom]

(* C18: the step that processes a domain's root page changes no product    *)
(* set and creates only depth-0 crawls of category-classified links of the *)
(* root; every URL of a product set is a link of a page crawled by         *)
(* crawl_category_pages, never of the root page alone.                     *)
C18_RootFrame ==
    /\ [][\A i \in DOMAIN tasks :
            (tasks[i].kind = "domain" /\ tasks[i].pc = "parse" /\ tasks'[i].pc # "parse")
            => /\ product_urls' = product_urls
               /\ \A j \in DOMAIN tasks' \ DOMAIN tasks :
                     /\ tasks'[j].parent = i
                     /\ tasks'[j].via = "batch"
                     /\ tasks'[j].depth = 0
                     /\ tasks'[j].url \in tasks'[i].links
                     /\ is_category_url(tasks'[j].url)]_vars
    /\ [](\A d \in Domains : \A u \in product_urls[d] :
            \E i \in DOMAIN tasks :
                tasks[i].kind = "category" /\ tasks[i].dom = d /\ u \in tasks[i].links)

C18_Witness ==
    /\ Done
    /\ \E i \in DOMAIN tasks :
          /\ tasks[i].kind = "domain"
          /\ <<"p", "42">> \in tasks[i].links
          /\ is_product_url(<<"p", "42">>)
          /\ product_urls[tasks[i].dom] = {}
          /\ \E j \in Children(i) : tasks[j].url = <<"p", "42">> /\ tasks[j].result = "body"

(* C19: every link process_page or crawl_domain extracts from a page is    *)
(* resolved against the URL of that page.                                  *)
C19_ResolvedAgainstPage ==
    \A i \in DOMAIN tasks :
        tasks[i].links = {urljoin(tasks[i].url, h) : h \in tasks[i].hrefs}

(* C20: every URL of a product set is product-classified and is a link of  *)
(* a page of the same domain that is in the visited set and was fetched    *)
(* with a body; no step removes a URL from a product set or a visited set; *)
(* a step of a crawl of one domain changes the sets of no other domain.    *)
C20_ProductProvenance ==
    /\ [](\A d \in Domains : \A u \in product_urls[d] :
            /\ is_product_url(u)
            /\ \E i \in DOMAIN tasks :
                  /\ tasks[i].kind = "category" /\ tasks[i].dom = d
                  /\ tasks[i].result = "body"
                  /\ tasks[i].url \in visited_categories[d]
                  /\ u \in tasks[i].links)
    /\ [][/\ \A d \in Domains :
               /\ product_urls[d] \subseteq product_urls'[d]
               /\ visited_categories[d] \subseteq visited_categories'[d]
          /\ \A i \in DOMAIN tasks :
               tasks'[i] # tasks[i] =>
                 \A d \in Domains \ {tasks'[i].dom} :
                    /\ product_urls'[d] = product_urls[d]
                    /\ visited_categories'[d] = visited_categories[d]]_vars

C20_Witness ==
    /\ product_urls[<<"a.test">>] # {}
    /\ visited_categories[<<"b.test">>] # {}
    /\ product_urls[<<"b.test">>] = {}

====
